---- MODULE Spec2Model ----
(***************************************************************************)
(* A model of pagerank.py: the transition model, the sampling estimator    *)
(* and the iterative estimator, over every closed link graph without       *)
(* self-links on a small page universe.                                    *)
(*                                                                         *)
(* Numbers.  Python floats are modelled as fixed-point numbers: the float  *)
(* x is the integer x * ONE, and a quotient is rounded down to a multiple  *)
(* of 1/ONE.  ONE is divisible by every page count, out-degree and sample  *)
(* count of the model and by the denominators of the damping factors, so   *)
(* the quantities of transition_model and the tally/n of sample_pagerank   *)
(* are exact; the ranks of iterate_pagerank carry a rounding error of a    *)
(* few units of 1/ONE per step, where the code carries one of a few ulp.   *)
(*                                                                         *)
(* Dictionaries are functions; a dictionary's iteration order is the       *)
(* sequence `keys` (the insertion order crawl gives the corpus, which      *)
(* every dictionary built from the corpus inherits).                       *)
(*                                                                         *)
(* Interpreter.  random.sample(corpus.keys(), 1) needs Python <= 3.10.     *)
(* random.choices raises ValueError on a non-positive total weight from    *)
(* Python 3.9 on and bisects whatever it is given before; both outcomes    *)
(* are in the model.                                                       *)
(***************************************************************************)
EXTENDS Integers, Sequences, FiniteSets, TLC

VARIABLES corpus, keys, damping_factor, pc,
          page, tramod,
          n, i, current_page, tally,
          iterprob, old_iterprob, max_iterchange, pos, iters

vars == <<corpus, keys, damping_factor, pc, page, tramod,
          n, i, current_page, tally,
          iterprob, old_iterprob, max_iterchange, pos, iters>>

tmVars == <<page, tramod>>
sampleVars == <<n, i, current_page, tally>>
iterVars == <<iterprob, old_iterprob, max_iterchange, pos, iters>>

----------------------------------------------------------------------------
(* Bounds of the model.                                                    *)

\* Most pages of a corpus given to transition_model and iterate_pagerank.
MaxPages == 3
\* Most pages of a corpus given to sample_pagerank.
MaxWalkPages == 2
\* Largest sample count n given to sample_pagerank (0 is given too).
MaxSamples == 3
\* Most passes of the while loop of iterate_pagerank the model follows.
MaxIter == 40

----------------------------------------------------------------------------
(* Fixed-point arithmetic.                                                 *)

\* The float 1.0.
ONE == 12000

IntToFloat(k) == k * ONE

FMul(a, b) == (a * b) \div ONE

\* a / b for b # 0 (the callers below raise ZeroDivisionError themselves).
FDiv(a, b) == (a * ONE) \div b

Abs(x) == IF x < 0 THEN -x ELSE x

\* DAMPING = 0.85
DAMPING == (17 * ONE) \div 20

\* The 0.001 of `while max_iterchange >= 0.001`.
THRESHOLD == ONE \div 1000

\* The 999 that iterate_pagerank starts max_iterchange with.
INITIAL_CHANGE == 999 * ONE

\* Damping factors given to the functions: 0, 0.5, 0.85 and 1 of the domain
\* [0, 1], and 1.5 outside it.
Dampings == {0, ONE \div 2, DAMPING, ONE, (3 * ONE) \div 2}

ValidDamping(d) == 0 <= d /\ d <= ONE

----------------------------------------------------------------------------
(* Dictionaries.                                                           *)

EmptyDict == [x \in {} |-> 0]

Put(dict, k, v) == [x \in (DOMAIN dict) \cup {k} |-> IF x = k THEN v ELSE dict[x]]

RECURSIVE SumOver(_, _)
SumOver(dict, S) ==
    IF S = {} THEN 0
    ELSE LET x == CHOOSE y \in S : TRUE
         IN  dict[x] + SumOver(dict, S \ {x})

\* sum(dict.values())
SumValues(dict) == SumOver(dict, DOMAIN dict)

\* The sequences that list the set S once each.
Orders(S) == {s \in [1..Cardinality(S) -> S] : \A a, b \in DOMAIN s : a # b => s[a] # s[b]}

Ascending(k) == [j \in 1..k |-> j]

Descending(k) == [j \in 1..k |-> k + 1 - j]

----------------------------------------------------------------------------
(* crawl: the link graphs it can return.  Pages are 1..k; a page maps to   *)
(* the set of other pages of the corpus it links to.                       *)

Corpora(maxPages) ==
    UNION {{c \in [1..k -> SUBSET (1..k)] : \A p \in 1..k : p \notin c[p]} : k \in 0..maxPages}

----------------------------------------------------------------------------
(* transition_model                                                        *)

\* A variant of TMEntry that shares the damping mass over the whole corpus
\* instead of over the links of the page.
TMEntryOverCorpus(c, ks, pg, d, tm, next_page) ==
    IF next_page \in c[pg]
    THEN FMul(d, FDiv(ONE, IntToFloat(Len(ks)))) + FMul(ONE - d, FDiv(ONE, IntToFloat(Len(ks))))
    ELSE FMul(ONE - d, FDiv(ONE, IntToFloat(Len(ks))))

\* One pass of the for loop: the value stored under next_page.
TMEntry(c, ks, pg, d, tm, next_page) ==
    LET linked_pages == c[pg]
    IN  IF next_page \in linked_pages
        THEN IF next_page \in DOMAIN tm
             THEN tm[next_page]
                  + FMul(d, FDiv(ONE, IntToFloat(Cardinality(linked_pages))))
                  + FMul(ONE - d, FDiv(ONE, IntToFloat(Len(ks))))
             ELSE FMul(d, FDiv(ONE, IntToFloat(Cardinality(c[pg]))))
                  + FMul(ONE - d, FDiv(ONE, IntToFloat(Len(ks))))
        ELSE FMul(ONE - d, FDiv(ONE, IntToFloat(Len(ks))))

RECURSIVE TMLoop(_, _, _, _, _, _)
TMLoop(c, ks, pg, d, tm, j) ==
    IF j > Len(ks) THEN tm
    ELSE TMLoop(c, ks, pg, d, Put(tm, ks[j], TMEntry(c, ks, pg, d, tm, ks[j])), j + 1)

transition_model(c, ks, pg, d) == TMLoop(c, ks, pg, d, EmptyDict, 1)

----------------------------------------------------------------------------
(* A call of transition_model on a page of the corpus.                     *)

InitTM ==
    /\ corpus \in Corpora(MaxPages)
    /\ keys \in {Ascending(Len(corpus)), Descending(Len(corpus))}
    /\ damping_factor \in Dampings
    /\ page \in DOMAIN corpus
    /\ tramod = EmptyDict
    /\ pc = "transition_model"
    /\ n = 0 /\ i = 0 /\ current_page = 0 /\ tally = EmptyDict
    /\ iterprob = EmptyDict /\ old_iterprob = EmptyDict
    /\ max_iterchange = 0 /\ pos = 0 /\ iters = 0

TransitionModel ==
    /\ pc = "transition_model"
    /\ tramod' = transition_model(corpus, keys, page, damping_factor)
    /\ pc' = "returned"
    /\ UNCHANGED <<corpus, keys, damping_factor, page, sampleVars, iterVars>>

NextTM == TransitionModel

SpecTM == InitTM /\ [][NextTM]_vars

----------------------------------------------------------------------------
(* random.choices(population, weights)                                     *)

\* itertools.accumulate(weights): the running totals.
RECURSIVE Accumulate(_, _)
Accumulate(weights, j) ==
    IF j = 0 THEN <<>>
    ELSE LET before == Accumulate(weights, j - 1)
         IN  Append(before, (IF j = 1 THEN 0 ELSE before[j - 1]) + weights[j])

\* bisect.bisect_right(a, x, lo, hi), 0-based as in Python: a[k + 1] is a[k].
RECURSIVE Bisect(_, _, _, _)
Bisect(a, x, lo, hi) ==
    IF lo < hi
    THEN LET mid == (lo + hi) \div 2
         IN  IF x < a[mid + 1] THEN Bisect(a, x, lo, mid) ELSE Bisect(a, x, mid + 1, hi)
    ELSE lo

\* The values random() * total can take, random() being in [0, 1): one
\* representative for each way the comparisons of the bisection can go.
RandomTimes(cum_weights, total) ==
    LET cuts == {cum_weights[j] : j \in DOMAIN cum_weights}
    IN  IF total > 0 THEN {0} \cup {x \in cuts : 0 <= x /\ x < total}
        ELSE IF total = 0 THEN {0}
        ELSE {0, total + 1} \cup {x \in cuts : total < x /\ x <= 0}

\* cum_weights of random.choices(list(transmod.keys()), list(transmod.values())).
CumWeights(ks, transmod) ==
    Accumulate([j \in 1..Len(ks) |-> transmod[ks[j]]], Len(ks))

\* The pages random.choices(...)[0] can return (on Python <= 3.8 also when
\* the total weight is not positive).
Choices(ks, transmod) ==
    LET cum_weights == CumWeights(ks, transmod)
        total == cum_weights[Len(ks)]
        hi == Len(ks) - 1
    IN  {ks[Bisect(cum_weights, x, 0, hi) + 1] : x \in RandomTimes(cum_weights, total)}

\* random.choices raises ValueError("Total of weights must be greater than
\* zero") on Python >= 3.9.
ChoicesRaises(ks, transmod) == CumWeights(ks, transmod)[Len(ks)] <= 0

----------------------------------------------------------------------------
(* sample_pagerank                                                         *)

\* A variant of RecordPage that marks the page visited without counting.
RecordPageOnce(t, cp) == Put(t, cp, 1)

\* "Record page": the tally after a visit to cp.
RecordPage(t, cp) ==
    IF cp \in DOMAIN t THEN Put(t, cp, t[cp] + 1) ELSE Put(t, cp, 1)

\* "Normalise": {key: value / n for key, value in tally.items()}
NormaliseTally(t, samples) ==
    [key \in DOMAIN t |-> FDiv(IntToFloat(t[key]), IntToFloat(samples))]

InitSample ==
    /\ corpus \in Corpora(MaxWalkPages)
    /\ keys \in Orders(DOMAIN corpus)
    /\ damping_factor \in Dampings
    /\ n \in 0..MaxSamples
    /\ i = 0 /\ current_page = 0 /\ tally = EmptyDict
    /\ pc = "start_page"
    /\ page = 0 /\ tramod = EmptyDict
    /\ iterprob = EmptyDict /\ old_iterprob = EmptyDict
    /\ max_iterchange = 0 /\ pos = 0 /\ iters = 0

\* start_page = random.sample(corpus.keys(), 1)[0], which raises ValueError
\* on an empty corpus.
SampleStart ==
    /\ pc = "start_page"
    /\ IF DOMAIN corpus = {}
       THEN /\ pc' = "ValueError"
            /\ UNCHANGED current_page
       ELSE /\ \E start_page \in DOMAIN corpus : current_page' = start_page
            /\ pc' = "for"
    /\ UNCHANGED <<corpus, keys, damping_factor, n, i, tally, tmVars, iterVars>>

\* One pass of `for i in range(n)`: record the page, draw the next one.
SampleStep ==
    /\ pc = "for"
    /\ i < n
    /\ tally' = RecordPage(tally, current_page)
    /\ LET transmod == transition_model(corpus, keys, current_page, damping_factor)
       IN  \/ /\ ChoicesRaises(keys, transmod)
              /\ pc' = "ValueError"
              /\ UNCHANGED <<current_page, i>>
           \/ \E next_page \in Choices(keys, transmod) :
                 /\ current_page' = next_page
                 /\ i' = i + 1
                 /\ pc' = "for"
    /\ UNCHANGED <<corpus, keys, damping_factor, n, tmVars, iterVars>>

\* The loop is over: normalise and return.
SampleReturn ==
    /\ pc = "for"
    /\ i >= n
    /\ tally' = NormaliseTally(tally, n)
    /\ pc' = "returned"
    /\ UNCHANGED <<corpus, keys, damping_factor, n, i, current_page, tmVars, iterVars>>

NextSample == SampleStart \/ SampleStep \/ SampleReturn

SpecSample == InitSample /\ [][NextSample]_vars

----------------------------------------------------------------------------
(* iterate_pagerank                                                        *)

\* The subsequence of ks whose pages are in S (a dictionary comprehension
\* keeps the order of the dictionary it filters).
RECURSIVE Filter(_, _, _)
Filter(ks, S, j) ==
    IF j = 0 THEN <<>>
    ELSE IF ks[j] \in S THEN Append(Filter(ks, S, j - 1), ks[j])
    ELSE Filter(ks, S, j - 1)

\* iterative_sum(distribution, corpus), the pages of distribution listed by ds.
RECURSIVE IterativeSumLoop(_, _, _, _)
IterativeSumLoop(distribution, ds, c, j) ==
    IF j = 0 THEN 0
    ELSE IterativeSumLoop(distribution, ds, c, j - 1)
         + FDiv(distribution[ds[j]], IntToFloat(Cardinality(c[ds[j]])))

iterative_sum(distribution, ds, c) == IterativeSumLoop(distribution, ds, c, Len(ds))

\* The body of `for page in iterprob.keys()`: the value stored under pg,
\* computed from the ranks ip as they stand when pg is reached.
UpdatedRank(c, ks, d, ip, pg) ==
    LET linked_pages == {ipage \in DOMAIN c : pg \in c[ipage]}
        ds == Filter(ks, linked_pages, Len(ks))
        distribution == [k \in linked_pages |-> ip[k]]
    IN  FDiv(ONE - d, IntToFloat(Len(ks))) + FMul(d, iterative_sum(distribution, ds, c))

\* "Normalise": {page: rank / sum(iterprob.values()) for page, rank in iterprob.items()}
NormaliseRanks(ip) == [pg \in DOMAIN ip |-> FDiv(ip[pg], SumValues(ip))]

\* max(abs(iterprob[page] - old_iterprob[page]) for page in iterprob.keys())
MaxChange(ip, old) ==
    LET iterchanges == {Abs(ip[pg] - old[pg]) : pg \in DOMAIN ip}
    IN  CHOOSE m \in iterchanges : \A x \in iterchanges : x <= m

\* The damping factors are those of the domain [0, 1]; the state after
\* lines 126-128.
InitIter ==
    /\ corpus \in Corpora(MaxPages)
    /\ keys \in Orders(DOMAIN corpus)
    /\ damping_factor \in {d \in Dampings : ValidDamping(d)}
    /\ iterprob = [pg \in DOMAIN corpus |-> FDiv(ONE, IntToFloat(Len(corpus)))]
    /\ old_iterprob = EmptyDict
    /\ max_iterchange = INITIAL_CHANGE
    /\ pos = 0 /\ iters = 0
    /\ pc = "while"
    /\ page = 0 /\ tramod = EmptyDict
    /\ n = 0 /\ i = 0 /\ current_page = 0 /\ tally = EmptyDict

\* `while max_iterchange >= 0.001` is entered: save the old dictionary.
IterBegin ==
    /\ pc = "while"
    /\ max_iterchange >= THRESHOLD
    /\ iters < MaxIter
    /\ old_iterprob' = iterprob
    /\ pos' = 1
    /\ pc' = "for"
    /\ UNCHANGED <<corpus, keys, damping_factor, iterprob, max_iterchange, iters,
                   tmVars, sampleVars>>

\* One pass of `for page in iterprob.keys()`: iterprob[page] is overwritten.
IterUpdate ==
    /\ pc = "for"
    /\ pos <= Len(keys)
    /\ iterprob' = [iterprob EXCEPT
                      ![keys[pos]] = UpdatedRank(corpus, keys, damping_factor, iterprob, keys[pos])]
    /\ pos' = pos + 1
    /\ UNCHANGED <<corpus, keys, damping_factor, pc, old_iterprob, max_iterchange, iters,
                   tmVars, sampleVars>>

\* After the for loop: normalise and set the iteration change.  The division
\* raises ZeroDivisionError when the ranks sum to zero, and max() raises
\* ValueError on the empty list an empty corpus gives.
IterNormalise ==
    /\ pc = "for"
    /\ pos > Len(keys)
    /\ IF DOMAIN iterprob # {} /\ SumValues(iterprob) = 0
       THEN /\ pc' = "ZeroDivisionError"
            /\ UNCHANGED <<iterprob, max_iterchange, iters>>
       ELSE IF DOMAIN iterprob = {}
       THEN /\ pc' = "ValueError"
            /\ UNCHANGED <<iterprob, max_iterchange, iters>>
       ELSE /\ iterprob' = NormaliseRanks(iterprob)
            /\ max_iterchange' = MaxChange(NormaliseRanks(iterprob), old_iterprob)
            /\ iters' = iters + 1
            /\ pc' = "while"
    /\ UNCHANGED <<corpus, keys, damping_factor, old_iterprob, pos, tmVars, sampleVars>>

\* The while condition is false: return iterprob.
IterReturn ==
    /\ pc = "while"
    /\ max_iterchange < THRESHOLD
    /\ pc' = "returned"
    /\ UNCHANGED <<corpus, keys, damping_factor, iterVars, tmVars, sampleVars>>

NextIter == IterBegin \/ IterUpdate \/ IterNormalise \/ IterReturn

SpecIter == InitIter /\ [][NextIter]_vars

----------------------------------------------------------------------------
(* Properties of transition_model, checked under SpecTM.                   *)

\* transition_model has returned tramod for `page`.
TMReturned == pc = "returned" /\ page \in DOMAIN corpus

\* C1: for a damping factor in [0, 1], the distribution transition_model
\* returns has one entry per page of the corpus and its values sum to 1.0,
\* also when the page has no outlinks.
C1_SumsToOne ==
    (TMReturned /\ ValidDamping(damping_factor))
        => /\ DOMAIN tramod = DOMAIN corpus
           /\ SumValues(tramod) = ONE

\* C2: for a page without outlinks and a damping factor in [0, 1],
\* transition_model gives every page of the corpus the probability 1/N.
C2_DanglingUniform ==
    (TMReturned /\ ValidDamping(damping_factor) /\ corpus[page] = {})
        => \A q \in DOMAIN corpus : tramod[q] = FDiv(ONE, IntToFloat(Len(corpus)))

\* C3: for a page with a non-empty set L of outlinks, transition_model gives
\* each page of L the probability (1 - damping)/N + damping/|L| and every
\* other page (the current page included) the probability (1 - damping)/N.
C3_LinkedShares ==
    (TMReturned /\ corpus[page] # {})
        => /\ DOMAIN tramod = DOMAIN corpus
           /\ \A q \in DOMAIN corpus :
                 tramod[q] =
                    IF q \in corpus[page]
                    THEN FDiv(ONE - damping_factor, IntToFloat(Len(corpus)))
                         + FDiv(damping_factor, IntToFloat(Cardinality(corpus[page])))
                    ELSE FDiv(ONE - damping_factor, IntToFloat(Len(corpus)))

\* A page of a three-page corpus with one outlink, at the default damping:
\* the linked page, the page itself and the third page all have their share.
C3_Witness ==
    /\ TMReturned
    /\ damping_factor = DAMPING
    /\ Len(corpus) = 3
    /\ Cardinality(corpus[page]) = 1
    /\ \E q \in corpus[page] : tramod[q] > tramod[page]

----------------------------------------------------------------------------
(* Properties of sample_pagerank, checked under SpecSample.                *)

\* C8: on an invalid parameter (damping factor outside [0, 1], sample count
\* not positive, empty corpus) the estimator raises and returns no Rank Map.
C8_FailsFast ==
    (~ValidDamping(damping_factor) \/ n <= 0 \/ DOMAIN corpus = {})
        => pc # "returned"

\* C9: every pass of the loop tallies exactly one visit to a page of the
\* corpus, so the tallies total the number of passes made (n when the loop
\* is over); for a damping factor in [0, 1] and n >= 1 the values returned
\* are tally/n, each between 0 and 1, and sum to 1.0.
C9_OneTallyPerSample ==
    /\ pc = "for"
          => /\ DOMAIN tally \subseteq DOMAIN corpus
             /\ \A q \in DOMAIN tally : tally[q] >= 1
             /\ SumValues(tally) = i
             /\ i <= n \/ n < 0
    /\ (pc = "returned" /\ ValidDamping(damping_factor) /\ n >= 1)
          => /\ DOMAIN tally \subseteq DOMAIN corpus
             /\ \A q \in DOMAIN tally :
                   /\ 0 <= tally[q] /\ tally[q] <= ONE
                   /\ \E visits \in 1..n : tally[q] = FDiv(IntToFloat(visits), IntToFloat(n))
             /\ SumValues(tally) = ONE

\* A walk of at least two samples that visited two pages has returned.
C9_Witness ==
    /\ pc = "returned"
    /\ ValidDamping(damping_factor)
    /\ n >= 2
    /\ Cardinality(DOMAIN tally) = 2
    /\ \E q \in DOMAIN tally : tally[q] > ONE \div 2

\* C10: on a corpus of exactly one page, for a damping factor in [0, 1] and
\* n >= 1, every pass of the loop can draw a next page (the transition
\* weights are not all zero), no draw raises, and the rank returned for the
\* page is 1.0.
C10_SinglePage ==
    (Len(corpus) = 1 /\ ValidDamping(damping_factor) /\ n >= 1)
        => /\ (pc = "for" /\ i < n)
                 => \E q \in DOMAIN corpus :
                       transition_model(corpus, keys, current_page, damping_factor)[q] # 0
           /\ pc # "ValueError"
           /\ pc = "returned" => tally = [q \in DOMAIN corpus |-> ONE]

----------------------------------------------------------------------------
(* Properties of iterate_pagerank, checked under SpecIter.                 *)

\* The while loop was cut short by the bound MaxIter.
CutShort == pc = "while" /\ max_iterchange >= THRESHOLD /\ iters >= MaxIter

\* C4: within a pass of the while loop, the new rank of every page is
\* computed from the ranks as they stood at the end of the previous pass
\* (old_iterprob), never from ranks already updated in the same sweep.
C4_ReadsSnapshot ==
    pc = "for"
        => \A j \in 1..(pos - 1) :
              iterprob[keys[j]] =
                 UpdatedRank(corpus, keys, damping_factor, old_iterprob, keys[j])

\* The ranks the sweep read when it reached the j-th page: the new ones of
\* the pages before it, the old ones of the others.
SeenRanks(j) ==
    [q \in DOMAIN corpus |->
        IF \E m \in 1..(j - 1) : keys[m] = q THEN iterprob[q] ELSE old_iterprob[q]]

\* (1 - damping)/N + damping * (sum over q linking to p of rank[q]/|outlinks(q)|
\*                              + sum over dangling q of rank[q]/N)
RankWithDangling(ranks, p) ==
    LET N == Len(corpus)
        share == [q \in DOMAIN corpus |->
                    IF p \in corpus[q] THEN FDiv(ranks[q], IntToFloat(Cardinality(corpus[q])))
                    ELSE IF corpus[q] = {} THEN FDiv(ranks[q], IntToFloat(N))
                    ELSE 0]
    IN  FDiv(ONE - damping_factor, IntToFloat(N)) + FMul(damping_factor, SumValues(share))

\* C5: a page without outlinks counts as linking to every page: it adds
\* rank[q]/N to the sum of every page p of the sweep.
C5_DanglingContributes ==
    pc = "for"
        => \A j \in 1..(pos - 1) : iterprob[keys[j]] = RankWithDangling(SeenRanks(j), keys[j])

\* C6: on a non-empty corpus the normalisation of every pass divides by a
\* non-zero sum, and leaves one non-negative rank per page, summing to 1.0
\* (up to the rounding of one unit of 1/ONE per page).
C6_NormaliseWellDefined ==
    DOMAIN corpus # {}
        => /\ (pc = "for" /\ pos > Len(keys)) => SumValues(iterprob) # 0
           /\ (pc \in {"while", "returned"} /\ iters >= 1)
                 => /\ DOMAIN iterprob = DOMAIN corpus
                    /\ \A q \in DOMAIN iterprob : iterprob[q] >= 0
                    /\ SumValues(iterprob) <= ONE
                    /\ SumValues(iterprob) > ONE - Len(keys)

\* C7: on a non-empty corpus the loop goes on until it returns: it returns
\* only after at least one pass and with a maximum change below 0.001, and
\* until then its next step can always be taken.
C7_Terminates ==
    DOMAIN corpus # {}
        => /\ pc = "returned" => (iters >= 1 /\ max_iterchange < THRESHOLD)
           /\ pc # "returned" => (CutShort \/ ENABLED NextIter)

====
